---- MODULE Spec2Model ----
(***************************************************************************)
(* Model of backend/app.py, the email open / click tracking service.       *)
(*                                                                         *)
(* The three MongoDB collections are the persisted state.  Every HTTP      *)
(* request is a process of its own (Flask serves requests on separate      *)
(* threads); a handler is cut into steps at each access to a collection,   *)
(* so that the steps of concurrent requests interleave exactly where the   *)
(* code gives up atomicity.  Each collection call is atomic on its own     *)
(* (MongoDB single-document atomicity).                                    *)
(*                                                                         *)
(* Faults: a collection call may raise, and then it has written nothing;   *)
(* the geolocation provider may answer, answer with an error status, fail  *)
(* with a RequestException, or answer with a body that makes get_ip_info   *)
(* raise another exception.  Spec has all of them, SpecNoFault none.       *)
(* Timestamps are readings of one wall clock that does not run backwards.  *)
(*                                                                         *)
(* Of the read routes, /api/stats (two reads of the summaries) and         *)
(* /api/details are modelled.  lookups records the calls that reach the    *)
(* geolocation provider; it is not state of the program.                   *)
(***************************************************************************)
EXTENDS Integers, Sequences, FiniteSets, TLC

VARIABLES
    tracked_emails_collection,  \* _id -> summary document          (app.py:28)
    open_events_collection,     \* sequence of open-event documents (app.py:29)
    clicks_collection,          \* sequence of click documents      (app.py:30)
    requests,                   \* request slot -> the request's locals, position and response
    clock,                      \* the last value datetime.utcnow() returned
    uuids,                      \* the values uuid.uuid4() has returned so far
    lookups                     \* the addresses the geolocation provider was asked
                                \* about, in the order of the calls       (app.py:44)

vars == <<tracked_emails_collection, open_events_collection, clicks_collection,
          requests, clock, uuids, lookups>>

(***************************************************************************)
(* Bounds of the model.                                                    *)
(***************************************************************************)
MaxRequests == 2
MaxClock == 1

Requests == 1..MaxRequests
Times == 0..MaxClock
UuidSpace == 1..MaxRequests

(***************************************************************************)
(* Inputs of the requests.                                                 *)
(***************************************************************************)
None == "None"
TrackingIds == {"a", "b"}
\* request.args.get(...) is None for an absent parameter, "" for an empty one
IdArgs == TrackingIds \cup {None, ""}
UrlArgs == {None, "", "ftp://x", "http://x", "https://y"}
\* a user agent is the sequence of its tokens
UserAgents == {<<"Mozilla", "GoogleImageProxy">>, <<"Mozilla">>}
\* an IPv4 address is the tuple of its octets
IpAddresses == {<<192, 168, 1, 5>>, <<127, 0, 0, 2>>, <<8, 8, 8, 8>>}
\* what the geolocation provider does with a lookup
GeoOutcomes == {"ok", "status", "request_exception", "other_exception"}

\* the address headers of a request: the peer address (request.remote_addr) and
\* the X-Forwarded-For header as the sequence of its comma-separated entries,
\* empty when the header is absent: a direct client, or a client behind a proxy
ProxyAddr == <<10, 0, 0, 1>>
AddressHeaders ==
    {[remote_addr |-> i, forwarded_for |-> << >>] : i \in IpAddresses}
    \cup {[remote_addr |-> ProxyAddr, forwarded_for |-> <<i, ProxyAddr>>] : i \in IpAddresses}
\* the request_id path segment of a /track-final request: any text
AttemptArgs == 1..2

TRANSPARENT_PNG == "TRANSPARENT_PNG"

(***************************************************************************)
(* Documents are functions from field names to values, so that a field     *)
(* may be absent.                                                          *)
(***************************************************************************)
HasField(doc, f) == f \in DOMAIN doc

\* MongoDB $set
SetField(doc, f, v) == [g \in DOMAIN doc \cup {f} |-> IF g = f THEN v ELSE doc[g]]

\* MongoDB $inc by 1: an absent field counts as 0
IncField(doc, f) == SetField(doc, f, IF HasField(doc, f) THEN doc[f] + 1 ELSE 1)

(***************************************************************************)
(* Helpers.                                                                *)
(***************************************************************************)
\* Python truthiness of an optional string argument
Truthy(arg) == arg # None /\ arg # ""

\* 'GoogleImageProxy' in user_agent
IsGoogleProxy(user_agent) ==
    \E i \in 1..Len(user_agent) : user_agent[i] = "GoogleImageProxy"

\* the decimal text of octet d begins with the digit 1
StartsWithDigit1(d) == d = 1 \/ d \in 10..19 \/ d \in 100..199

\* ip_address.startswith(('127.0.0.1', '192.168.', '10.', '172.'))
IsLocalPrefix(ip) ==
    \/ ip[1] = 127 /\ ip[2] = 0 /\ ip[3] = 0 /\ StartsWithDigit1(ip[4])
    \/ ip[1] = 192 /\ ip[2] = 168
    \/ ip[1] = 10
    \/ ip[1] = 172

\* request.headers.get('X-Forwarded-For', request.remote_addr).split(',')[0].strip()
ClientIp(forwarded_for, remote_addr) ==
    IF forwarded_for # << >> THEN Head(forwarded_for) ELSE remote_addr

\* get_ip_info: the value returned, or the exception that leaves the function
get_ip_info(ip_address, outcome) ==
    IF IsLocalPrefix(ip_address)
    THEN [raised |-> FALSE, called |-> FALSE, info |-> [note |-> "Private/Local IP Address"]]
    ELSE CASE outcome = "ok" ->
                [raised |-> FALSE, called |-> TRUE, info |-> [city |-> "city", isp |-> "isp"]]
           [] outcome = "status" ->
                [raised |-> FALSE, called |-> TRUE, info |-> [error |-> "API failed with status"]]
           [] outcome = "request_exception" ->
                [raised |-> FALSE, called |-> TRUE, info |-> [error |-> "API request failed"]]
           [] OTHER ->
                \* response.json() or data.get('connection', {}).get(...) raises an
                \* exception that is no RequestException: it is not caught here
                [raised |-> TRUE, called |-> TRUE, info |-> [exception |-> "raised"]]

\* requests.get(url, timeout=5): the call reaches the provider, whatever comes back
Asked(log, ip_address, ip_info) ==
    IF ip_info.called THEN Append(log, ip_address) ELSE log

\* the provider is asked only when get_ip_info gets past its prefix test
LookupOutcomes(ip_address, outcomes) ==
    IF IsLocalPrefix(ip_address) THEN {"ok"} ELSE outcomes

(***************************************************************************)
(* Responses.                                                              *)
(***************************************************************************)
\* send_file(io.BytesIO(TRANSPARENT_PNG), mimetype='image/png')
PixelResponse == [status |-> 200, body |-> TRANSPARENT_PNG]

\* redirect(url, code=307)
Redirect(location) == [status |-> 307, location |-> location]

\* url_for('track_final_confirmation', tracking_id=..., request_id=..., _external=True)
FinalUrl(tracking_id, request_id) == <<"track-final", tracking_id, request_id>>

\* a (message, 400) return value
BadRequest(message) == [status |-> 400, body |-> message]

\* an exception that leaves the view function: Flask answers 500
ServerError == [status |-> 500, body |-> "Internal Server Error"]

(***************************************************************************)
(* Collection operations.                                                  *)
(***************************************************************************)
\* a variant of the upsert that writes the counter instead of incrementing it
UpsertOpenSetsCount(coll, tracking_id, now_iso) ==
    coll @@ (tracking_id :> [open_count |-> 1, last_opened_at |-> now_iso,
                             first_opened_at |-> now_iso, created_at |-> now_iso])

\* a variant of the upsert whose $setOnInsert leaves first_opened_at out
UpsertOpenNoFirst(coll, tracking_id, now_iso) ==
    IF tracking_id \in DOMAIN coll
    THEN [coll EXCEPT ![tracking_id] =
              SetField(IncField(@, "open_count"), "last_opened_at", now_iso)]
    ELSE coll @@ (tracking_id :>
              [open_count |-> 1, last_opened_at |-> now_iso, created_at |-> now_iso])

\* a variant of the upsert that has first_opened_at under $set
UpsertOpenSetsFirst(coll, tracking_id, now_iso) ==
    IF tracking_id \in DOMAIN coll
    THEN [coll EXCEPT ![tracking_id] =
              SetField(SetField(IncField(@, "open_count"), "last_opened_at", now_iso),
                       "first_opened_at", now_iso)]
    ELSE coll @@ (tracking_id :>
              [open_count |-> 1, last_opened_at |-> now_iso,
               first_opened_at |-> now_iso, created_at |-> now_iso])

\* update_one({'_id': id}, {'$inc': {'open_count': 1}, '$set': {'last_opened_at': now},
\*            '$setOnInsert': {..., 'first_opened_at': now, 'created_at': now}}, upsert=True)
UpsertOpen(coll, tracking_id, now_iso) ==
    IF tracking_id \in DOMAIN coll
    THEN [coll EXCEPT ![tracking_id] =
              SetField(IncField(@, "open_count"), "last_opened_at", now_iso)]
    ELSE coll @@ (tracking_id :>
              [open_count |-> 1, last_opened_at |-> now_iso,
               first_opened_at |-> now_iso, created_at |-> now_iso])

\* update_one({'_id': id}, {'$inc': {'click_count': 1}}): no upsert
IncClick(coll, tracking_id) ==
    IF tracking_id \in DOMAIN coll
    THEN [coll EXCEPT ![tracking_id] = IncField(@, "click_count")]
    ELSE coll

\* insert_one(doc): the driver gives the document its _id
InsertOne(coll, doc, id) == Append(coll, SetField(doc, "_id", id))

\* {'$sum': '$field'} over the documents with the ids given: a document
\* without the field adds nothing
RECURSIVE SumField(_, _, _)
SumField(coll, ids, f) ==
    IF ids = {} THEN 0
    ELSE LET id == CHOOSE i \in ids : TRUE
         IN  (IF HasField(coll[id], f) THEN coll[id][f] ELSE 0)
                 + SumField(coll, ids \ {id}, f)

\* aggregate([{'$group': {'_id': None, 'total_opens': {'$sum': '$open_count'},
\*                        'total_clicks': {'$sum': '$click_count'}}}]):
\* one group document, or no document at all over an empty collection
Aggregate(coll) ==
    IF DOMAIN coll = {} THEN << >>
    ELSE <<[total_opens |-> SumField(coll, DOMAIN coll, "open_count"),
            total_clicks |-> SumField(coll, DOMAIN coll, "click_count")]>>

\* count_documents({})
CountDocuments(coll) == Cardinality(DOMAIN coll)

(***************************************************************************)
(* Initial state: empty collections, no request received.                  *)
(***************************************************************************)
Idle == [route |-> "none", pc |-> "idle"]

Init ==
    /\ tracked_emails_collection = << >>
    /\ open_events_collection = << >>
    /\ clicks_collection = << >>
    /\ requests = [r \in Requests |-> Idle]
    /\ clock = 0
    /\ uuids = {}
    /\ lookups = << >>

\* request slots are used in order
CanStart(r) ==
    /\ requests[r].pc = "idle"
    /\ \A q \in Requests : q < r => requests[q].pc # "idle"

\* what stays of a request once it is answered: what it was asked, how it was
\* classified, its response, and the call whose exception the handler printed
\* ("" when it printed none); of a /api/stats request also whether any other
\* request took a step between its start and its answer
Kept == {"route", "tracking_id", "destination_url", "is_google_proxy", "alone"}

Finish(r, locals, response, logged) ==
    requests' = [requests EXCEPT ![r] =
        [f \in DOMAIN locals \cap Kept |-> locals[f]]
            @@ [pc |-> "done", response |-> response, logged |-> logged]]

Goto(r, locals, pc) ==
    requests' = [requests EXCEPT ![r] = locals @@ [pc |-> pc]]

Locals(r) == [f \in DOMAIN requests[r] \ {"pc"} |-> requests[r][f]]

\* datetime.utcnow(): the wall clock, read at or after its last reading
ReadClock(now) == now \in clock..MaxClock /\ clock' = now

(***************************************************************************)
(* GET /track : track_initial_request                                      *)
(***************************************************************************)
\* a variant that draws the identifier once, when the module is loaded
Uuid4Once(u) == u = 1

\* uuid.uuid4(): a value the generator has not returned before
Uuid4(u) == u \in UuidSpace \ uuids

\* a variant that counts the open at the first hop (a one-hop pixel)
track_initial_request_counts(r) ==
    /\ CanStart(r)
    /\ \E tracking_id \in TrackingIds, request_id \in UuidSpace :
         /\ Uuid4(request_id)
         /\ uuids' = uuids \cup {request_id}
         /\ tracked_emails_collection' =
                UpsertOpen(tracked_emails_collection, tracking_id, clock)
         /\ Finish(r, [route |-> "track", tracking_id |-> tracking_id],
                   Redirect(FinalUrl(tracking_id, request_id)), "")
    /\ UNCHANGED <<open_events_collection, clicks_collection, clock, lookups>>

track_initial_request(r) ==
    /\ CanStart(r)
    /\ \E tracking_id \in IdArgs :
         LET locals == [route |-> "track", tracking_id |-> tracking_id] IN
         IF ~Truthy(tracking_id)
         THEN /\ Finish(r, locals, PixelResponse, "")
              /\ UNCHANGED uuids
         ELSE \E request_id \in UuidSpace :
                /\ Uuid4(request_id)
                /\ uuids' = uuids \cup {request_id}
                /\ Finish(r, locals @@ [request_id |-> request_id],
                          Redirect(FinalUrl(tracking_id, request_id)), "")
    /\ UNCHANGED <<tracked_emails_collection, open_events_collection,
                   clicks_collection, clock, lookups>>

(***************************************************************************)
(* GET /track-final/<tracking_id>/<request_id> : track_final_confirmation  *)
(***************************************************************************)
\* lines 79-90: read the headers and the clock, classify, look the address up
track_final_begin(r, outcomes) ==
    /\ CanStart(r)
    /\ \E tracking_id \in TrackingIds, request_id \in AttemptArgs,
          user_agent \in UserAgents, headers \in AddressHeaders, now_iso \in Times :
         LET ip_address == ClientIp(headers.forwarded_for, headers.remote_addr)
             is_google_proxy == IsGoogleProxy(user_agent)
             event_record == [uid |-> tracking_id, ip |-> ip_address,
                              user_agent |-> user_agent, opened_at |-> now_iso,
                              is_real_open |-> is_google_proxy]
             locals == [route |-> "track-final", tracking_id |-> tracking_id,
                        request_id |-> request_id, now_iso |-> now_iso,
                        is_google_proxy |-> is_google_proxy,
                        event_record |-> event_record]
         IN  /\ ReadClock(now_iso)
             /\ IF is_google_proxy
                THEN \E outcome \in LookupOutcomes(ip_address, outcomes) :
                       LET ip_info == get_ip_info(ip_address, outcome) IN
                       /\ lookups' = Asked(lookups, ip_address, ip_info)
                       /\ IF ip_info.raised
                          THEN \* caught at line 101
                               Finish(r, locals, PixelResponse, "get_ip_info")
                          ELSE Goto(r, [locals EXCEPT !.event_record =
                                           SetField(@, "geo_info", ip_info.info)],
                                    "update_summary")
                ELSE /\ Goto(r, locals, "insert_event")
                     /\ UNCHANGED lookups
    /\ UNCHANGED <<tracked_emails_collection, open_events_collection,
                   clicks_collection, uuids>>

\* a variant that counts the open only when the first hop has minted its
\* attempt identifier
track_final_update_minted(r) ==
    /\ requests[r].route = "track-final" /\ requests[r].pc = "update_summary"
    /\ tracked_emails_collection' =
           IF requests[r].request_id \in uuids
           THEN UpsertOpen(tracked_emails_collection, requests[r].tracking_id,
                           requests[r].now_iso)
           ELSE tracked_emails_collection
    /\ Goto(r, Locals(r), "insert_event")
    /\ UNCHANGED <<open_events_collection, clicks_collection, clock, uuids, lookups>>

\* lines 92-96: the upsert succeeds
track_final_update(r) ==
    /\ requests[r].route = "track-final" /\ requests[r].pc = "update_summary"
    /\ tracked_emails_collection' =
           UpsertOpen(tracked_emails_collection, requests[r].tracking_id, requests[r].now_iso)
    /\ Goto(r, Locals(r), "insert_event")
    /\ UNCHANGED <<open_events_collection, clicks_collection, clock, uuids, lookups>>

\* a variant without the try block: the exception leaves the view function
track_final_update_unhandled(r) ==
    /\ requests[r].route = "track-final" /\ requests[r].pc = "update_summary"
    /\ Finish(r, Locals(r), ServerError, "")
    /\ UNCHANGED <<tracked_emails_collection, open_events_collection,
                   clicks_collection, clock, uuids, lookups>>

\* a variant with a try block of its own around the upsert: the insert follows
track_final_update_skipped(r) ==
    /\ requests[r].route = "track-final" /\ requests[r].pc = "update_summary"
    /\ Goto(r, Locals(r), "insert_event")
    /\ UNCHANGED <<tracked_emails_collection, open_events_collection,
                   clicks_collection, clock, uuids, lookups>>

\* lines 92-96, 101-104: the upsert raises, the insert is skipped
track_final_update_fails(r) ==
    /\ requests[r].route = "track-final" /\ requests[r].pc = "update_summary"
    /\ Finish(r, Locals(r), PixelResponse, "update_one")
    /\ UNCHANGED <<tracked_emails_collection, open_events_collection,
                   clicks_collection, clock, uuids, lookups>>

\* a variant with the upsert after the if/else: every hit is counted
track_final_insert_counts(r) ==
    /\ requests[r].route = "track-final" /\ requests[r].pc = "insert_event"
    /\ tracked_emails_collection' =
           UpsertOpen(tracked_emails_collection, requests[r].tracking_id, requests[r].now_iso)
    /\ open_events_collection' =
           InsertOne(open_events_collection, requests[r].event_record, r)
    /\ Finish(r, Locals(r), PixelResponse, "")
    /\ UNCHANGED <<clicks_collection, clock, uuids, lookups>>

\* lines 100, 104: the insert succeeds
track_final_insert(r) ==
    /\ requests[r].route = "track-final" /\ requests[r].pc = "insert_event"
    /\ open_events_collection' =
           InsertOne(open_events_collection, requests[r].event_record, r)
    /\ Finish(r, Locals(r), PixelResponse, "")
    /\ UNCHANGED <<tracked_emails_collection, clicks_collection, clock, uuids, lookups>>

\* lines 100-104: the insert raises
track_final_insert_fails(r) ==
    /\ requests[r].route = "track-final" /\ requests[r].pc = "insert_event"
    /\ Finish(r, Locals(r), PixelResponse, "insert_one")
    /\ UNCHANGED <<tracked_emails_collection, open_events_collection,
                   clicks_collection, clock, uuids, lookups>>

(***************************************************************************)
(* GET /click : track_click                                                *)
(***************************************************************************)
\* a variant that asks for any scheme separator, not for the two prefixes
HasAnyScheme(url) == url \in {"ftp://x", "http://x", "https://y"}

\* destination_url.startswith('http://') or destination_url.startswith('https://')
HasHttpScheme(url) == url \in {"http://x", "https://y"}

\* lines 110-129: validate, read the headers and the clock, look the address up
track_click_begin(r, outcomes) ==
    /\ CanStart(r)
    /\ \E tracking_id \in IdArgs, destination_url \in UrlArgs :
         LET args == [route |-> "click", tracking_id |-> tracking_id,
                      destination_url |-> destination_url] IN
         IF ~Truthy(tracking_id) \/ ~Truthy(destination_url)
         THEN /\ Finish(r, args, BadRequest("Error: Missing tracking ID or destination URL."), "")
              /\ UNCHANGED <<clock, lookups>>
         ELSE IF ~HasHttpScheme(destination_url)
         THEN /\ Finish(r, args, BadRequest("Error: Invalid destination URL format."), "")
              /\ UNCHANGED <<clock, lookups>>
         ELSE \E headers \in AddressHeaders, now_iso \in Times :
                LET ip_address == ClientIp(headers.forwarded_for, headers.remote_addr) IN
                /\ ReadClock(now_iso)
                /\ \E outcome \in LookupOutcomes(ip_address, outcomes) :
                     LET geo_info == get_ip_info(ip_address, outcome)
                         click_record == [uid |-> tracking_id,
                                          destination_url |-> destination_url,
                                          ip |-> ip_address, clicked_at |-> now_iso,
                                          geo_info |-> geo_info.info]
                     IN  /\ lookups' = Asked(lookups, ip_address, geo_info)
                         /\ IF geo_info.raised
                            THEN \* line 122 is outside the try block
                                 Finish(r, args, ServerError, "")
                            ELSE Goto(r, args @@ [click_record |-> click_record],
                                      "insert_click")
    /\ UNCHANGED <<tracked_emails_collection, open_events_collection,
                   clicks_collection, uuids>>

\* line 132: the insert succeeds
track_click_insert(r) ==
    /\ requests[r].route = "click" /\ requests[r].pc = "insert_click"
    /\ clicks_collection' = InsertOne(clicks_collection, requests[r].click_record, r)
    /\ Goto(r, Locals(r), "update_summary")
    /\ UNCHANGED <<tracked_emails_collection, open_events_collection, clock, uuids, lookups>>

\* lines 132, 139-142: the insert raises, the update is skipped
track_click_insert_fails(r) ==
    /\ requests[r].route = "click" /\ requests[r].pc = "insert_click"
    /\ Finish(r, Locals(r), Redirect(requests[r].destination_url), "insert_one")
    /\ UNCHANGED <<tracked_emails_collection, open_events_collection,
                   clicks_collection, clock, uuids, lookups>>

\* lines 134-142: the update succeeds
track_click_update(r) ==
    /\ requests[r].route = "click" /\ requests[r].pc = "update_summary"
    /\ tracked_emails_collection' =
           IncClick(tracked_emails_collection, requests[r].tracking_id)
    /\ Finish(r, Locals(r), Redirect(requests[r].destination_url), "")
    /\ UNCHANGED <<open_events_collection, clicks_collection, clock, uuids, lookups>>

\* lines 134-142: the update raises
track_click_update_fails(r) ==
    /\ requests[r].route = "click" /\ requests[r].pc = "update_summary"
    /\ Finish(r, Locals(r), Redirect(requests[r].destination_url), "update_one")
    /\ UNCHANGED <<tracked_emails_collection, open_events_collection,
                   clicks_collection, clock, uuids, lookups>>

(***************************************************************************)
(* GET /api/stats : get_stats                                              *)
(***************************************************************************)
\* jsonify(body)
JsonResponse(body) == [status |-> 200, body |-> body]

\* jsonify({'error': str(e)}), 500
ErrorResponse == [status |-> 500, body |-> [error |-> "str(e)"]]

\* no other request is between its first step and its answer
Alone(r) == \A q \in Requests \ {r} : requests[q].pc \in {"idle", "done"}

\* no request has started after r did (the slots are used in order)
NoneSince(r) == \A q \in Requests : q > r => requests[q].pc = "idle"

\* lines 165-172: the aggregation is read
get_stats_aggregate(r) ==
    /\ CanStart(r)
    /\ LET aggregation_result == Aggregate(tracked_emails_collection)
           total_opens == IF aggregation_result # << >>
                          THEN aggregation_result[1].total_opens ELSE 0
           total_clicks == IF aggregation_result # << >>
                           THEN aggregation_result[1].total_clicks ELSE 0
       IN  Goto(r, [route |-> "stats", total_opens |-> total_opens,
                    total_clicks |-> total_clicks, alone |-> Alone(r)],
                "count_documents")
    /\ UNCHANGED <<tracked_emails_collection, open_events_collection,
                   clicks_collection, clock, uuids, lookups>>

\* lines 166, 180-181: the aggregation raises
get_stats_aggregate_fails(r) ==
    /\ CanStart(r)
    /\ Finish(r, [route |-> "stats"], ErrorResponse, "")
    /\ UNCHANGED <<tracked_emails_collection, open_events_collection,
                   clicks_collection, clock, uuids, lookups>>

\* lines 174-179: the summaries are counted and the response is built
get_stats_count(r) ==
    /\ requests[r].route = "stats" /\ requests[r].pc = "count_documents"
    /\ LET unique_ids == CountDocuments(tracked_emails_collection)
       IN  Finish(r, [Locals(r) EXCEPT !.alone = @ /\ NoneSince(r)],
                  JsonResponse([total_opens |-> requests[r].total_opens,
                                total_clicks |-> requests[r].total_clicks,
                                unique_tracking_ids |-> unique_ids]), "")
    /\ UNCHANGED <<tracked_emails_collection, open_events_collection,
                   clicks_collection, clock, uuids, lookups>>

\* lines 174, 180-181: the count raises
get_stats_count_fails(r) ==
    /\ requests[r].route = "stats" /\ requests[r].pc = "count_documents"
    /\ Finish(r, [route |-> "stats"], ErrorResponse, "")
    /\ UNCHANGED <<tracked_emails_collection, open_events_collection,
                   clicks_collection, clock, uuids, lookups>>

(***************************************************************************)
(* GET /api/details/<tracking_id> : get_tracking_details                   *)
(***************************************************************************)
\* jsonify({'error': 'Tracking ID not found'}), 404
NotFound == [status |-> 404, body |-> [error |-> "Tracking ID not found"]]

\* the route has the variable part <string:tracking_id> and Flask calls the
\* view with tracking_id=... as a keyword argument; the function of line 185
\* takes no parameter, so the call itself raises a TypeError, outside the try
\* block of lines 187-200: no line of the body runs and Flask answers 500
get_tracking_details(r) ==
    /\ CanStart(r)
    /\ \E tracking_id \in TrackingIds :
         Finish(r, [route |-> "details", tracking_id |-> tracking_id], ServerError, "")
    /\ UNCHANGED <<tracked_emails_collection, open_events_collection,
                   clicks_collection, clock, uuids, lookups>>

(***************************************************************************)
(* Specifications.                                                         *)
(***************************************************************************)
\* every request, every outcome of the geolocation provider and of the store
Next ==
    \E r \in Requests :
        \/ track_initial_request(r)
        \/ track_final_begin(r, GeoOutcomes)
        \/ track_final_update(r)
        \/ track_final_update_fails(r)
        \/ track_final_insert(r)
        \/ track_final_insert_fails(r)
        \/ track_click_begin(r, GeoOutcomes)
        \/ track_click_insert(r)
        \/ track_click_insert_fails(r)
        \/ track_click_update(r)
        \/ track_click_update_fails(r)
        \/ get_stats_aggregate(r)
        \/ get_stats_aggregate_fails(r)
        \/ get_stats_count(r)
        \/ get_stats_count_fails(r)
        \/ get_tracking_details(r)

Spec == Init /\ [][Next]_vars

\* the runs in which the geolocation provider answers and no store call raises
NextNoFault ==
    \E r \in Requests :
        \/ track_initial_request(r)
        \/ track_final_begin(r, {"ok"})
        \/ track_final_update(r)
        \/ track_final_insert(r)
        \/ track_click_begin(r, {"ok"})
        \/ track_click_insert(r)
        \/ track_click_update(r)
        \/ get_stats_aggregate(r)
        \/ get_stats_count(r)
        \/ get_tracking_details(r)

SpecNoFault == Init /\ [][NextNoFault]_vars

(***************************************************************************)
(* What the claims read off the state.                                     *)
(***************************************************************************)
HasSummary(id) == id \in DOMAIN tracked_emails_collection

Summary(id) == tracked_emails_collection[id]

\* a counter of the summary of id: 0 without a summary or without the field
Counter(id, f) ==
    IF HasSummary(id) /\ HasField(Summary(id), f) THEN Summary(id)[f] ELSE 0

OpenEventsOf(id) ==
    {i \in 1..Len(open_events_collection) : open_events_collection[i].uid = id}

ConfirmedEventsOf(id) ==
    {i \in OpenEventsOf(id) : open_events_collection[i].is_real_open}

ClickEventsOf(id) ==
    {i \in 1..Len(clicks_collection) : clicks_collection[i].uid = id}

\* the open events request r has stored
OpenEventsBy(r) ==
    {i \in 1..Len(open_events_collection) : open_events_collection[i]["_id"] = r}

IsHop2(r) == requests[r].route = "track-final"

Done(r) == requests[r].pc = "done"

Quiescent == \A r \in Requests : requests[r].pc \in {"idle", "done"}

\* the confirmed Hop-2 requests for id whose upsert has been executed
UpsertedOpens(id) ==
    {r \in Requests :
        /\ IsHop2(r)
        /\ requests[r].tracking_id = id
        /\ requests[r].is_google_proxy
        /\ \/ requests[r].pc = "insert_event"
           \/ Done(r) /\ requests[r].logged \in {"", "insert_one"}}

(***************************************************************************)
(* C1: for every tracking identifier, in every reachable state, open_count *)
(* of its summary (0 without a summary) equals the number of stored        *)
(* OpenEvents of that identifier that are classified confirmed.            *)
(* The code violates it: the upsert and the insert are two writes, and     *)
(* the insert may raise after the upsert has counted the open.             *)
(***************************************************************************)
C1_OpenCountIsConfirmedEvents ==
    \A id \in TrackingIds :
        Counter(id, "open_count") = Cardinality(ConfirmedEventsOf(id))

\* no request is in flight any more, and the count still exceeds the events
C1_CountWithoutEvent ==
    /\ Quiescent
    /\ \E id \in TrackingIds :
         Counter(id, "open_count") > Cardinality(ConfirmedEventsOf(id))

(***************************************************************************)
(* C2: for N concurrent confirmed Hop-2 requests for one identifier, in    *)
(* any interleaving of their steps, no increment is lost: once all of them *)
(* have completed open_count is their number, and at every moment it is    *)
(* the number of them whose upsert has been executed.  Checked on the runs *)
(* in which no call raises (a request whose upsert raises counts nothing). *)
(***************************************************************************)
ConfirmedOpens(id) ==
    {r \in Requests :
        IsHop2(r) /\ requests[r].tracking_id = id /\ requests[r].is_google_proxy}

C2_NoLostUpdate ==
    \A id \in TrackingIds :
        /\ Counter(id, "open_count") = Cardinality(UpsertedOpens(id))
        /\ (\A r \in ConfirmedOpens(id) : Done(r))
              => Counter(id, "open_count") = Cardinality(ConfirmedOpens(id))

\* two confirmed opens of one identifier have completed, and the one that read
\* the clock first ran its upsert last: their steps were interleaved
C2_TwoInterleavedOpens ==
    \E id \in TrackingIds :
        /\ Cardinality(ConfirmedOpens(id)) = 2
        /\ \A r \in ConfirmedOpens(id) : Done(r)
        /\ Counter(id, "open_count") = 2
        /\ Summary(id).last_opened_at < Summary(id).first_opened_at

(***************************************************************************)
(* C3: for every tracking identifier, in every reachable state,            *)
(* click_count of its summary equals the number of stored ClickEvents of   *)
(* that identifier; a click that is the first event of its identifier      *)
(* creates the summary.                                                    *)
(* The code violates it: the update of line 134 is no upsert, so a click   *)
(* on an identifier without a summary is stored and never counted.         *)
(***************************************************************************)
C3_ClickCountIsClickEvents ==
    \A id \in TrackingIds :
        Counter(id, "click_count") = Cardinality(ClickEventsOf(id))

\* no request is in flight, a click of id is stored, and id has no summary
C3_ClickWithoutSummary ==
    /\ Quiescent
    /\ \E id \in TrackingIds : ClickEventsOf(id) # {} /\ ~HasSummary(id)

(***************************************************************************)
(* C4: every Hop-2 request appends exactly one OpenEvent, confirmed or     *)
(* not, whatever the outcome of the geolocation lookup and of the summary  *)
(* upsert that precede the insert: a Hop-2 request that has been answered, *)
(* and whose insert itself did not raise, has exactly one stored event.    *)
(* The code violates it: the upsert and the lookup run inside the same try *)
(* block as the insert, so an exception of either skips the insert.        *)
(***************************************************************************)
C4_EveryHop2StoresOneEvent ==
    \A r \in Requests :
        (IsHop2(r) /\ Done(r) /\ requests[r].logged # "insert_one")
            => Cardinality(OpenEventsBy(r)) = 1

\* a confirmed Hop-2 request whose upsert raised was answered and stored no event
C4_UpsertFailedNoEvent ==
    \E r \in Requests :
        /\ IsHop2(r) /\ Done(r)
        /\ requests[r].logged = "update_one"
        /\ OpenEventsBy(r) = {}

(***************************************************************************)
(* C5: every Hop-2 request is answered with the transparent pixel and      *)
(* never with an error response, whatever its classification, the outcome  *)
(* of the geolocation lookup and the outcome of the two store calls.       *)
(***************************************************************************)
C5_Hop2AlwaysPixel ==
    \A r \in Requests :
        (IsHop2(r) /\ Done(r)) => requests[r].response = PixelResponse

\* Hop-2 requests were answered with the pixel after the upsert raised and
\* after the insert raised
C5_PixelAfterStoreFailures ==
    /\ \E r \in Requests :
         IsHop2(r) /\ Done(r) /\ requests[r].logged = "update_one"
                   /\ requests[r].response = PixelResponse
    /\ \E r \in Requests :
         IsHop2(r) /\ Done(r) /\ requests[r].logged = "insert_one"
                   /\ requests[r].response = PixelResponse

(***************************************************************************)
(* C6: no step of a Hop-2 request whose user agent lacks the image-proxy   *)
(* marker changes the summary collection; the step that answers it, when   *)
(* the insert did not raise, appends one OpenEvent of its identifier       *)
(* marked unconfirmed, and no other step of it changes the OpenEvents.     *)
(***************************************************************************)
StepsOf(r) == requests'[r] # requests[r]

Appended(before, after) ==
    /\ Len(after) = Len(before) + 1
    /\ SubSeq(after, 1, Len(before)) = before

C6_UnconfirmedHitLeavesSummaries ==
    [][\A r \in Requests :
        (/\ StepsOf(r)
         /\ requests'[r].route = "track-final"
         /\ ~requests'[r].is_google_proxy)
        => /\ tracked_emails_collection' = tracked_emails_collection
           /\ IF requests'[r].pc = "done" /\ requests'[r].logged = ""
              THEN /\ Appended(open_events_collection, open_events_collection')
                   /\ LET e == open_events_collection'[Len(open_events_collection')]
                      IN  /\ e.uid = requests'[r].tracking_id
                          /\ e.is_real_open = FALSE
                          /\ ~IsGoogleProxy(e.user_agent)
              ELSE open_events_collection' = open_events_collection
      ]_vars

\* an unconfirmed hit of an identifier that has a summary was answered and
\* stored: its event is there, marked unconfirmed, and open_count is still 1
C6_UnconfirmedHitStored ==
    \E r \in Requests :
        /\ IsHop2(r) /\ Done(r) /\ ~requests[r].is_google_proxy
        /\ \E i \in OpenEventsBy(r) : ~open_events_collection[i].is_real_open
        /\ Counter(requests[r].tracking_id, "open_count") = 1

(***************************************************************************)
(* C7: Hop 1 never changes persisted state: a step of a /track request,    *)
(* with or without an identifier, leaves the three collections as they     *)
(* were; and a /track request whose identifier is absent or empty is       *)
(* answered with the transparent pixel, not with a redirect.               *)
(***************************************************************************)
IsHop1(r) == requests[r].route = "track"

C7_Hop1WritesNothing ==
    /\ [](\A r \in Requests :
            (IsHop1(r) /\ Done(r) /\ ~Truthy(requests[r].tracking_id))
                => requests[r].response = PixelResponse)
    /\ [][\A r \in Requests :
            (StepsOf(r) /\ requests'[r].route = "track")
                => /\ open_events_collection' = open_events_collection
                   /\ clicks_collection' = clicks_collection
                   /\ tracked_emails_collection' = tracked_emails_collection
         ]_vars

\* /track without an identifier was answered over a store that holds a
\* summary and an event
C7_Hop1OverNonEmptyStore ==
    /\ \E r \in Requests :
         IsHop1(r) /\ Done(r) /\ ~Truthy(requests[r].tracking_id)
                   /\ requests[r].response = PixelResponse
    /\ tracked_emails_collection # << >>
    /\ open_events_collection # << >>

(***************************************************************************)
(* C8: a /track request with an identifier is answered with a 307 redirect *)
(* to /track-final/<id>/<attempt id>, <id> being the identifier of the     *)
(* request, and any two such answers carry different attempt ids.          *)
(* uuid.uuid4() is modelled as a generator of fresh values: the chance of  *)
(* two equal draws of 122 random bits is outside the model.                *)
(***************************************************************************)
Redirected(r) == IsHop1(r) /\ Done(r) /\ Truthy(requests[r].tracking_id)

C8_Hop1RedirectsWithFreshAttempt ==
    /\ \A r \in Requests :
         Redirected(r)
            => /\ requests[r].response.status = 307
               /\ Len(requests[r].response.location) = 3
               /\ requests[r].response.location[1] = "track-final"
               /\ requests[r].response.location[2] = requests[r].tracking_id
    /\ \A r1, r2 \in Requests :
         (r1 # r2 /\ Redirected(r1) /\ Redirected(r2))
            => requests[r1].response.location[3] # requests[r2].response.location[3]

\* two /track requests for the same identifier were redirected
C8_TwoRedirectsOfOneId ==
    \E r1, r2 \in Requests :
        /\ r1 # r2 /\ Redirected(r1) /\ Redirected(r2)
        /\ requests[r1].tracking_id = requests[r2].tracking_id

(***************************************************************************)
(* C9: when exactly one confirmed Hop-2 open of an identifier has run its  *)
(* upsert (the identifier had no summary before), the summary exists with  *)
(* open_count = 1 and first_opened_at = last_opened_at = created_at.       *)
(***************************************************************************)
C9_FirstOpenCreatesSummary ==
    \A id \in TrackingIds :
        Cardinality(UpsertedOpens(id)) = 1
            => /\ HasSummary(id)
               /\ {"open_count", "first_opened_at", "last_opened_at", "created_at"}
                      \subseteq DOMAIN Summary(id)
               /\ Summary(id).open_count = 1
               /\ Summary(id).first_opened_at = Summary(id).last_opened_at
               /\ Summary(id).first_opened_at = Summary(id).created_at

\* the single confirmed open of an identifier has been answered, at time 1,
\* after a click on that identifier had been stored
C9_SingleOpenAnswered ==
    \E id \in TrackingIds :
        /\ \E r \in UpsertedOpens(id) : UpsertedOpens(id) = {r} /\ Done(r)
        /\ ClickEventsOf(id) # {}
        /\ Summary(id).open_count = 1
        /\ Summary(id).first_opened_at = 1

(***************************************************************************)
(* C10: once a summary exists, no step removes it or changes its           *)
(* first_opened_at or its created_at.                                      *)
(***************************************************************************)
C10_FirstOpenedAtNeverChanges ==
    [][\A id \in TrackingIds :
        HasSummary(id)
            => /\ id \in DOMAIN tracked_emails_collection'
               /\ {"first_opened_at", "created_at"}
                      \subseteq DOMAIN tracked_emails_collection'[id]
               /\ tracked_emails_collection'[id].first_opened_at
                      = Summary(id).first_opened_at
               /\ tracked_emails_collection'[id].created_at = Summary(id).created_at
      ]_vars

\* a summary created at time 0 has since been updated by a second confirmed
\* open, at time 1
C10_SummaryUpdatedLater ==
    \E id \in TrackingIds :
        /\ HasSummary(id)
        /\ Summary(id).open_count = 2
        /\ Summary(id).first_opened_at = 0
        /\ Summary(id).created_at = 0
        /\ Summary(id).last_opened_at = 1

(***************************************************************************)
(* C11: a /click request whose tracking identifier or destination URL is   *)
(* missing or empty, or whose destination URL begins with neither http://  *)
(* nor https://, is answered in its first step with status 400, and that   *)
(* step writes no ClickEvent, leaves every summary as it was and asks the  *)
(* geolocation provider nothing.                                           *)
(***************************************************************************)
IsClick(r) == requests[r].route = "click"

C11_BadArguments(tracking_id, destination_url) ==
    \/ tracking_id \in {None, ""}
    \/ destination_url \in {None, "", "ftp://x"}

C11_InvalidClickRejected ==
    [][\A r \in Requests :
        (/\ StepsOf(r)
         /\ requests'[r].route = "click"
         /\ C11_BadArguments(requests'[r].tracking_id, requests'[r].destination_url))
        => /\ requests'[r].pc = "done"
           /\ requests'[r].response.status = 400
           /\ clicks_collection' = clicks_collection
           /\ tracked_emails_collection' = tracked_emails_collection
           /\ open_events_collection' = open_events_collection
           /\ lookups' = lookups
      ]_vars

\* a click on ftp://x with an identifier was answered 400 while the click of
\* another request is stored: it added none
C11_FtpClickRejected ==
    \E r \in Requests :
        /\ IsClick(r) /\ Done(r)
        /\ Truthy(requests[r].tracking_id)
        /\ requests[r].destination_url = "ftp://x"
        /\ requests[r].response.status = 400
        /\ Len(clicks_collection) = 1
        /\ \A i \in 1..Len(clicks_collection) : clicks_collection[i]["_id"] # r

(***************************************************************************)
(* C12: every /click request with a non-empty tracking identifier and an   *)
(* http:// or https:// destination URL is answered with a 307 redirect to  *)
(* exactly that URL, whatever the outcome of the ClickEvent insert, of the *)
(* summary update and of the geolocation lookup.                           *)
(* The code violates it: get_ip_info is called at line 122, before the try *)
(* block, and catches only RequestException; any other exception of the    *)
(* lookup leaves the view function and the request is answered 500.        *)
(***************************************************************************)
C12_ValidClick(r) ==
    /\ IsClick(r)
    /\ requests[r].tracking_id \notin {None, ""}
    /\ requests[r].destination_url \in {"http://x", "https://y"}

C12_ValidClickAlwaysRedirects ==
    \A r \in Requests :
        (C12_ValidClick(r) /\ Done(r))
            => requests[r].response = [status |-> 307,
                                       location |-> requests[r].destination_url]

\* a valid click was answered 500 after the provider had been asked, and
\* nothing of it was stored
C12_ValidClickAnswered500 ==
    \E r \in Requests :
        /\ C12_ValidClick(r) /\ Done(r)
        /\ requests[r].response.status = 500
        /\ lookups # << >>
        /\ clicks_collection = << >>

(***************************************************************************)
(* C13: when a /api/stats request runs after a fault-free sequence of      *)
(* confirmed opens and valid clicks, all of them answered before it starts *)
(* and no other request running beside it, its response has total_opens =  *)
(* the number of those confirmed opens, total_clicks = the number of those *)
(* clicks and unique_tracking_ids = the number of distinct identifiers of  *)
(* those requests, in any order of the clicks and the opens.               *)
(* The code violates it (the code bug of C3): the update of lines 134-137  *)
(* is no upsert, so a click that comes before the first confirmed open of  *)
(* its identifier is in no summary and is missing from the sums.           *)
(***************************************************************************)
IsStats(r) == requests[r].route = "stats"

\* the requests that started before r
Before(r) == {q \in Requests : q < r}

C13_IsConfirmedOpen(q) ==
    IsHop2(q) /\ Done(q) /\ requests[q].is_google_proxy

C13_IsValidClick(q) ==
    IsClick(q) /\ Done(q) /\ requests[q].response.status = 307

C13_StatsCountEveryOpenAndClick ==
    \A r \in Requests :
        (/\ IsStats(r) /\ Done(r)
         /\ requests[r].response.status = 200
         /\ requests[r].alone
         /\ \A q \in Before(r) : C13_IsConfirmedOpen(q) \/ C13_IsValidClick(q))
        => LET opens == {q \in Before(r) : C13_IsConfirmedOpen(q)}
               clicks == {q \in Before(r) : C13_IsValidClick(q)}
               ids == {requests[q].tracking_id : q \in Before(r)}
               body == requests[r].response.body
           IN  /\ body.total_opens = Cardinality(opens)
               /\ body.total_clicks = Cardinality(clicks)
               /\ body.unique_tracking_ids = Cardinality(ids)

\* /api/stats ran alone after a valid click that is stored, and reported no
\* click and no identifier
C13_StatsMissTheClick ==
    \E r \in Requests :
        /\ IsStats(r) /\ Done(r) /\ requests[r].alone
        /\ Before(r) # {}
        /\ \A q \in Before(r) : C13_IsValidClick(q)
        /\ Len(clicks_collection) = Cardinality(Before(r))
        /\ requests[r].response.status = 200
        /\ requests[r].response.body.total_clicks = 0
        /\ requests[r].response.body.unique_tracking_ids = 0

(***************************************************************************)
(* C14: a /api/details/<id> request is answered 404 when the identifier    *)
(* has no summary; otherwise it is answered with the summary together with *)
(* OpenEvents that are all of that identifier and confirmed, in ascending  *)
(* order of opened_at, and ClickEvents that are all of that identifier, in *)
(* ascending order of clicked_at.                                          *)
(* The code violates it: the view function of line 185 is declared without *)
(* the tracking_id parameter of its route, so every such request ends in a *)
(* TypeError at the call and is answered 500, with or without a summary.   *)
(***************************************************************************)
IsDetails(r) == requests[r].route = "details"

C14_Ascending(events, f) ==
    \A i, j \in 1..Len(events) : i < j => events[i][f] <= events[j][f]

C14_DetailsOfKnownOrNotFound ==
    \A r \in Requests :
        (IsDetails(r) /\ Done(r))
            => LET id == requests[r].tracking_id
                   response == requests[r].response
               IN  /\ response.status \in {200, 404}
                   /\ ~HasSummary(id) => response.status = 404
                   /\ response.status = 200 =>
                         /\ \A i \in 1..Len(response.body.open_events) :
                               /\ response.body.open_events[i].uid = id
                               /\ response.body.open_events[i].is_real_open
                         /\ C14_Ascending(response.body.open_events, "opened_at")
                         /\ \A i \in 1..Len(response.body.click_events) :
                               response.body.click_events[i].uid = id
                         /\ C14_Ascending(response.body.click_events, "clicked_at")

\* the details of an identifier that has a summary and a confirmed OpenEvent
\* were asked for, and the answer was 500
C14_DetailsAnswered500 ==
    \E r \in Requests :
        /\ IsDetails(r) /\ Done(r)
        /\ HasSummary(requests[r].tracking_id)
        /\ ConfirmedEventsOf(requests[r].tracking_id) # {}
        /\ requests[r].response.status = 500

(***************************************************************************)
(* C15: the geolocation provider is never asked about an address in a      *)
(* private range (10/8, 172.16/12, 192.168/16) or in the loopback range    *)
(* (127/8): a stored event of such an address that carries enrichment      *)
(* carries the local-address marker; and the provider is asked at most     *)
(* once per confirmed open and per valid click, and by no other request.   *)
(* The code violates it: the test of line 40 compares text prefixes and    *)
(* its loopback prefix is '127.0.0.1', so the provider is asked about      *)
(* every other address of 127/8, such as 127.0.0.2.                        *)
(***************************************************************************)
C15_IsPrivate(ip) ==
    \/ ip[1] = 10
    \/ ip[1] = 172 /\ ip[2] \in 16..31
    \/ ip[1] = 192 /\ ip[2] = 168

C15_IsLoopback(ip) == ip[1] = 127

C15_LocalMarker == [note |-> "Private/Local IP Address"]

C15_Enriched(events) ==
    {i \in 1..Len(events) : "geo_info" \in DOMAIN events[i]}

C15_NoLookupOfLocalAddresses ==
    /\ \A i \in 1..Len(lookups) :
         ~C15_IsPrivate(lookups[i]) /\ ~C15_IsLoopback(lookups[i])
    /\ \A i \in C15_Enriched(open_events_collection) :
         LET e == open_events_collection[i] IN
         (C15_IsPrivate(e.ip) \/ C15_IsLoopback(e.ip)) => e.geo_info = C15_LocalMarker
    /\ \A i \in C15_Enriched(clicks_collection) :
         LET e == clicks_collection[i] IN
         (C15_IsPrivate(e.ip) \/ C15_IsLoopback(e.ip)) => e.geo_info = C15_LocalMarker
    /\ Len(lookups) <= Cardinality({r \in Requests :
                           \/ IsHop2(r) /\ requests[r].is_google_proxy
                           \/ C12_ValidClick(r)})

\* a confirmed open from the loopback address 127.0.0.2 is stored with what the
\* provider said about that address
C15_LoopbackLookedUp ==
    \E i \in 1..Len(open_events_collection) :
        LET e == open_events_collection[i] IN
        /\ e.is_real_open
        /\ e.ip = <<127, 0, 0, 2>>
        /\ e.geo_info # C15_LocalMarker
        /\ \E j \in 1..Len(lookups) : lookups[j] = e.ip

(***************************************************************************)
(* C16: in every reachable state every summary has first_opened_at <=      *)
(* last_opened_at, and no step lowers the last_opened_at of a summary,     *)
(* under all interleavings of concurrent confirmed Hop-2 requests.         *)
(* The code violates it: a request reads the clock at line 81 and writes   *)
(* that reading with $set at lines 92-96, after the lookup; when two       *)
(* requests run their upserts in the opposite order of their readings, the *)
(* second upsert sets last_opened_at back, below first_opened_at.          *)
(***************************************************************************)
C16_FirstNotAfterLast ==
    /\ [](\A id \in TrackingIds :
            HasSummary(id) => Summary(id).first_opened_at <= Summary(id).last_opened_at)
    /\ [][\A id \in TrackingIds :
            (HasSummary(id) /\ id \in DOMAIN tracked_emails_collection')
                => tracked_emails_collection'[id].last_opened_at
                       >= Summary(id).last_opened_at
         ]_vars

\* both confirmed opens of an identifier are answered and stored, and its
\* summary says it was last opened at 0 and first opened at 1
C16_LastOpenedBeforeFirst ==
    \E id \in TrackingIds :
        /\ Quiescent
        /\ HasSummary(id)
        /\ Cardinality(ConfirmedEventsOf(id)) = 2
        /\ Summary(id).first_opened_at = 1
        /\ Summary(id).last_opened_at = 0

(***************************************************************************)
(* C17: in every reachable state, between the two writes of a Hop-2        *)
(* request and after a storage failure too, the number of stored confirmed *)
(* OpenEvents of an identifier is at most its open_count, every stored     *)
(* confirmed OpenEvent is of an identifier that has a summary, and a       *)
(* confirmed request whose upsert raised has stored no event.              *)
(***************************************************************************)
C17_ConfirmedEventsAtMostCount ==
    /\ \A id \in TrackingIds :
         Cardinality(ConfirmedEventsOf(id)) <= Counter(id, "open_count")
    /\ \A i \in 1..Len(open_events_collection) :
         open_events_collection[i].is_real_open
            => HasSummary(open_events_collection[i].uid)
    /\ \A r \in Requests :
         (IsHop2(r) /\ Done(r) /\ requests[r].logged = "update_one")
            => OpenEventsBy(r) = {}

\* a confirmed request is between its two writes while the event of an earlier
\* confirmed open of the same identifier is stored: one event, open_count 2
C17_BetweenTheTwoWrites ==
    \E r \in Requests :
        /\ IsHop2(r) /\ requests[r].pc = "insert_event" /\ requests[r].is_google_proxy
        /\ Cardinality(ConfirmedEventsOf(requests[r].tracking_id)) = 1
        /\ Counter(requests[r].tracking_id, "open_count") = 2

(***************************************************************************)
(* C18: every summary has open_count >= 1, and every successful            *)
(* /api/stats response is a snapshot of the summaries in that it has       *)
(* total_opens >= unique_tracking_ids, also when confirmed opens of new    *)
(* identifiers run between the two reads of the request.                   *)
(* The code violates it: the sums are read at line 166 and the summaries   *)
(* are counted in a second read at line 174; a summary created between the *)
(* two reads is counted and its open is not in the sum.                    *)
(***************************************************************************)
C18_StatsAreASnapshot ==
    /\ \A id \in TrackingIds : HasSummary(id) => Counter(id, "open_count") >= 1
    /\ \A r \in Requests :
         (IsStats(r) /\ Done(r) /\ requests[r].response.status = 200)
            => requests[r].response.body.total_opens
                   >= requests[r].response.body.unique_tracking_ids

\* a /api/stats request that shared its time with a confirmed open of a new
\* identifier answered: no open, one identifier
C18_MoreIdentifiersThanOpens ==
    \E r \in Requests :
        /\ IsStats(r) /\ Done(r) /\ ~requests[r].alone
        /\ requests[r].response.status = 200
        /\ requests[r].response.body.total_opens = 0
        /\ requests[r].response.body.unique_tracking_ids = 1
        /\ \E id \in TrackingIds : Counter(id, "open_count") = 1

(***************************************************************************)
(* C19: what a confirmed Hop-2 request does is the same for every attempt  *)
(* identifier, minted by Hop 1 or not, used before or not: on the runs     *)
(* without faults its upsert step raises open_count of its identifier by   *)
(* exactly 1, its last step appends exactly one OpenEvent of its           *)
(* identifier, which holds no attempt identifier, and none of its steps    *)
(* changes the set of minted attempt identifiers.                          *)
(***************************************************************************)
C19_AttemptIdIsIgnored ==
    [][\A r \in Requests :
        (/\ StepsOf(r)
         /\ requests'[r].route = "track-final"
         /\ requests'[r].is_google_proxy)
        => LET id == requests[r].tracking_id IN
           /\ uuids' = uuids
           /\ requests[r].pc = "idle"
                 => /\ requests'[r].pc = "update_summary"
                    /\ tracked_emails_collection' = tracked_emails_collection
                    /\ open_events_collection' = open_events_collection
           /\ requests[r].pc = "update_summary"
                 => /\ requests'[r].pc = "insert_event"
                    /\ Counter(id, "open_count")' = Counter(id, "open_count") + 1
                    /\ open_events_collection' = open_events_collection
           /\ requests[r].pc = "insert_event"
                 => /\ requests'[r].pc = "done"
                    /\ tracked_emails_collection' = tracked_emails_collection
                    /\ Appended(open_events_collection, open_events_collection')
                    /\ LET e == open_events_collection'[Len(open_events_collection')]
                       IN  /\ e.uid = id
                           /\ e.is_real_open
                           /\ "request_id" \notin DOMAIN e
      ]_vars

\* two confirmed Hop-2 requests for one identifier carry the same attempt
\* identifier, which no Hop 1 has minted; both have run their upsert and
\* open_count is 2
C19_ReplayedAttemptCountedTwice ==
    \E r1, r2 \in Requests :
        /\ r1 # r2
        /\ IsHop2(r1) /\ requests[r1].pc = "insert_event" /\ requests[r1].is_google_proxy
        /\ IsHop2(r2) /\ requests[r2].pc = "insert_event" /\ requests[r2].is_google_proxy
        /\ requests[r1].tracking_id = requests[r2].tracking_id
        /\ requests[r1].request_id = requests[r2].request_id
        /\ requests[r1].request_id \notin uuids
        /\ Counter(requests[r1].tracking_id, "open_count") = 2

====
